---- MODULE Spec2Model ----
(***************************************************************************)
(* Realingdle: the daily puzzle session of the game page (GamePageContent) *)
(* and the daily-character route (GET).                                    *)
(*                                                                         *)
(* React state is modelled as the variables of the last committed render.  *)
(* Every synchronous block of an async function (the code between two      *)
(* awaits) is one action: its setState calls are batched into one render,  *)
(* and the effects that render triggers (the local cache mirror and the    *)
(* attempt upsert) are part of the same action.  A closure keeps the       *)
(* values of the render that created it: each running handler and each     *)
(* running load carries the values it captured.                            *)
(***************************************************************************)
EXTENDS Integers, Sequences, FiniteSets, TLC

VARIABLES
  \* the real world
  today,             \* getTodayKey(): the current UTC date, as a day number
  authState,         \* AuthSessionProvider: "pending" | "anon" | "user"
  \* window.localStorage
  charsCacheValid,   \* realingdle:characters-cache:v1 present and unexpired
  gameCache,         \* realingdle:game-state:v3:<date>, per date
  \* the backend
  catalog,           \* characters, ascending
  dailyRows,         \* daily_characters: per date, the rows stored for it
  attemptRows,       \* daily_game_attempts of the user, per game_date
  \* GamePageContent: React state
  gameDate, lives, guesses, gameOver, won, found, characterOfDay,
  allCharacters, loading, loadError, attemptHydrated,
  \* GamePageContent: refs
  fetchInFlightRef, fetchSequenceRef,
  \* running async functions
  run,               \* the running fetchCharacterOfDay, if any
  hs,                \* the running handleGuess calls
  nSubmitted,        \* accepted submissions so far (bounds the model)
  nUnmatched,        \* submissions of a token that matched no character
  searchValue,       \* the text of the search input
  isTodayGame,       \* gameDate === getTodayKey(), as the last render computed it
  lastUpsert,        \* the last upsert saveAttempt sent, and whether it was stored
  sheets,            \* the attributes of each character, as the backend returns them
  otherTab,          \* the game of a second page of the same user, same date
  profile,           \* the profiles row of the user: games_played and wins
  signals,           \* the increments of the profile that returned without throwing
  retry,             \* a running withRetry(() => withTimeout(...), attempts) call
  guessCards,        \* the cards of the guesses, as the last render drew them
  reqs               \* the requests to the daily-character route

vars == <<today, authState, charsCacheValid, gameCache, catalog, dailyRows,
          attemptRows, gameDate, lives, guesses, gameOver, won, found,
          characterOfDay, allCharacters, loading, loadError, attemptHydrated,
          fetchInFlightRef, fetchSequenceRef, run, hs, nSubmitted, reqs,
          nUnmatched, searchValue, isTodayGame, lastUpsert, sheets,
          guessCards, otherTab, profile, signals, retry>>

reactVars == <<gameDate, lives, guesses, gameOver, won, found, characterOfDay,
               allCharacters, loading, loadError, attemptHydrated, searchValue>>

----------------------------------------------------------------------------
(* Bounds of the model *)

MaxHandlers == 2    \* handleGuess calls that may overlap
MaxGuesses == 2     \* accepted submissions per run of the model
MaxDay == 2         \* the clock stops at this day
MaxLoads == 2       \* runs of fetchCharacterOfDay (mount, then "Try again")
MaxRequests == 2    \* requests to the daily-character route that may overlap
MaxUnmatched == 1   \* submissions of a token that matched no character
MaxCards == 2       \* guesses whose cards the card list shows
MaxOtherGuesses == 2  \* guesses the second page holds at most
MaxAttempts == 3    \* the attempts a withRetry call is given at most
TimeoutTicks == 2   \* the window of withTimeout, in ticks of the clock

(* Program constants *)

MAX_LIVES == 10
BaseDelay == 400    \* withRetry: sleep(400 * 2 ** index)

None == "none"
NoEntry == [present |-> FALSE]     \* localStorage.getItem(...) === null
NoAttempt == [present |-> FALSE]   \* no row for (user_id, game_date)
NoUpsert == [present |-> FALSE]    \* saveAttempt has not run
NoTab == [present |-> FALSE]       \* no second page is open
NewProfile == [games_played |-> 0, wins |-> 0]
NoSignals == [games_played |-> 0, wins |-> 0, returned |-> 0]
NoRetry == [pc |-> "none"]         \* no withRetry call is modelled
LoadErrorText == "Unable to load game right now. Please try again."

Days == 0..MaxDay
TheUser == "u1"

Min(S) == CHOOSE x \in S : \A y \in S : x <= y
Max2(a, b) == IF a >= b THEN a ELSE b
Min2(a, b) == IF a <= b THEN a ELSE b

----------------------------------------------------------------------------
(* Characters and names *)

CharacterIds == {"c1", "c2", "c3"}

NameOf(id) ==
  CASE id = "c1" -> "Ana"
    [] id = "c2" -> "Bia"
    [] id = "c3" -> "Caio"
    [] OTHER -> ""

ToLowerCase(s) ==
  CASE s \in {"Ana", "ana", "ANA"} -> "ana"
    [] s \in {"Bia", "bia", "BIA"} -> "bia"
    [] s \in {"Caio", "caio", "CAIO"} -> "caio"
    [] OTHER -> s

\* what the player may type
Tokens == {"ana", "BIA", "Caio", "zzz"}

\* the tokens that are the name of a character
Names == {"ana", "BIA", "Caio"}

\* a search that falls back to the first character when no name matches
FindByNameM(chars, guess) ==
  LET idx == {i \in 1..Len(chars) :
                ToLowerCase(NameOf(chars[i])) = ToLowerCase(guess)}
  IN IF idx = {} THEN (IF Len(chars) = 0 THEN None ELSE chars[1])
     ELSE chars[Min(idx)]

\* allCharacters.find((character) => character.name.toLowerCase() === guess.toLowerCase())
FindByName(chars, guess) ==
  LET idx == {i \in 1..Len(chars) :
                ToLowerCase(NameOf(chars[i])) = ToLowerCase(guess)}
  IN IF idx = {} THEN None ELSE chars[Min(idx)]

\* characters.find((character) => character.id === id)
FindById(chars, id) ==
  IF \E i \in 1..Len(chars) : chars[i] = id THEN id ELSE None

----------------------------------------------------------------------------
(* The attributes of a character and the card of a guess *)

\* JavaScript values: undefined, null, a number, a string, an object with an id
Undefined == [kind |-> "undefined"]
Null == [kind |-> "null"]
Num(n) == [kind |-> "number", value |-> n]
Str(s) == [kind |-> "string", value |-> s]
Obj(id) == [kind |-> "object", id |-> id]

IsNullish(v) == v.kind \in {"undefined", "null"}

\* v?.id
OptionalId(v) == IF IsNullish(v) THEN Undefined ELSE Str(v.id)

\* v ?? null
OrNull(v) == IF IsNullish(v) THEN Null ELSE v

\* the multi-valued attributes of a Character; a list holds the ids of its items
Attributes == {"classes", "races", "occupations", "associations", "places"}

Reverse(s) == [i \in 1..Len(s) |-> s[Len(s) + 1 - i]]

\* the lists a character of the model may have for its classes
ClassLists == {<<>>, <<"k1">>, <<"k1", "k2">>, <<"k2", "k1">>}

OthersA ==
  [races |-> <<"r1", "r2">>, occupations |-> <<"o1">>,
   associations |-> <<>>, places |-> <<"p1", "p2">>]

OthersB ==
  [races |-> <<"r2", "r1">>, occupations |-> <<"o2", "o1">>,
   associations |-> <<"a1">>, places |-> <<"p2">>]

\* the other lists a character of the model may have
OtherLists == {OthersA, OthersB}

Ages == {Undefined, Null, Num(30)}
States == {Null, Obj("s1"), Obj("s2")}

Sheet(age, state, classes, others) ==
  [age |-> age, state |-> state, classes |-> classes, races |-> others.races,
   occupations |-> others.occupations, associations |-> others.associations,
   places |-> others.places]

SheetSet ==
  {Sheet(age, state, classes, others) :
     age \in Ages, state \in States, classes \in ClassLists, others \in OtherLists}

\* the same character with the items of every list in the opposite order
Reordered(sheet) ==
  [sheet EXCEPT !.classes = Reverse(@), !.races = Reverse(@),
                !.occupations = Reverse(@), !.associations = Reverse(@),
                !.places = Reverse(@)]

DefaultSheets ==
  [id \in CharacterIds |->
     CASE id = "c1" -> Sheet(Num(30), Obj("s1"), <<"k1", "k2">>, OthersA)
       [] id = "c2" -> Sheet(Null, Obj("s2"), <<"k2", "k1">>, OthersB)
       [] OTHER -> Sheet(Undefined, Null, <<>>, OthersA)]

\* a chip rendering that compares the lists position by position
RenderChipsM(items, matchItems) ==
  IF Len(items) = 0
  THEN <<[key |-> None, match |-> FALSE]>>
  ELSE [i \in 1..Len(items) |->
          [key |-> items[i],
           match |-> i <= Len(matchItems) /\ matchItems[i] = items[i]]]

\* renderChips(items, matchItems): one chip per item, a single "None" chip for
\* an empty list
RenderChips(items, matchItems) ==
  LET matchIds == {matchItems[i] : i \in 1..Len(matchItems)}
  IN IF Len(items) = 0
     THEN <<[key |-> None, match |-> FALSE]>>
     ELSE [i \in 1..Len(items) |->
             [key |-> items[i], match |-> items[i] \in matchIds]]

\* const comparisons = { state: ..., age: ... }
Comparisons(guessed, target) ==
  [state |-> OptionalId(guessed.state) = OptionalId(target.state),
   age |-> OrNull(guessed.age) = OrNull(target.age)]

UnknownCard == [kind |-> "unknown"]

\* the card of one guess token: the body of guesses.map((guessToken, index) => ...)
GuessCard(guessToken, chars, target, sh) ==
  LET guessedCharacter == FindById(chars, guessToken)
  IN IF guessedCharacter = None \/ target = None
     THEN UnknownCard
     ELSE [kind |-> "card",
           id |-> guessedCharacter,
           isCorrect |-> guessedCharacter = target,
           comparisons |-> Comparisons(sh[guessedCharacter], sh[target]),
           chips |-> [a \in Attributes |->
                        RenderChips(sh[guessedCharacter][a], sh[target][a])]]

\* [...guesses].reverse().map(...)
GuessCards(gs, chars, target, sh) ==
  [i \in 1..Len(gs) |-> GuessCard(gs[Len(gs) + 1 - i], chars, target, sh)]

\* Math.max(0, Math.min(n, MAX_LIVES)); the stored lives are numbers here (a
\* null lives_remaining, which the code replaces by MAX_LIVES, is not among
\* the inputs)
ClampLives(n) == Max2(0, Min2(n, MAX_LIVES))

\* const sessionUserId = sessionUser?.id ?? null
SessionUserId == IF authState = "user" THEN TheUser ELSE None

\* const isTodayGame = gameDate === getTodayKey(), computed by a render
IsTodayGame == gameDate = today

----------------------------------------------------------------------------
(* Effects of a render *)

\* useEffect(..., [characterOfDay, guesses, lives, won, found, gameDate, storageKey])
CacheDeps == <<characterOfDay, guesses, lives, won, found, gameDate>>

CachePayload ==
  [dateKey |-> gameDate, characterId |-> characterOfDay, guesses |-> guesses,
   lives |-> lives, won |-> won, found |-> found, hasFound |-> TRUE]

\* a mirror effect that leaves the entry alone once the game is over
MirrorEffectM(base) ==
  gameCache' =
    IF CacheDeps' # CacheDeps /\ characterOfDay' # None /\ ~gameOver'
    THEN [base EXCEPT ![gameDate'] = CachePayload']
    ELSE base

\* The mirror effect: after a render that changed one of its dependencies,
\* the state is written under the storage key of gameDate.  base is
\* localStorage as the action's own removeItem calls left it.
MirrorEffect(base) ==
  gameCache' =
    IF CacheDeps' # CacheDeps /\ characterOfDay' # None
    THEN [base EXCEPT ![gameDate'] = CachePayload']
    ELSE base

\* useEffect(..., [characterOfDay, guesses, lives, won, found, sessionUserId,
\*                 attemptHydrated, gameDate])
SaveDeps ==
  <<characterOfDay, guesses, lives, won, found, SessionUserId,
    attemptHydrated, gameDate>>

\* a guard that also skips the save once the game is over
SaveGuardM ==
  /\ characterOfDay # None
  /\ attemptHydrated
  /\ SessionUserId # None
  /\ Len(guesses) > 0
  /\ ~gameOver

SaveGuard ==
  /\ characterOfDay # None
  /\ attemptHydrated
  /\ SessionUserId # None
  /\ Len(guesses) > 0

AttemptPayload ==
  [guesses |-> guesses, lives_remaining |-> lives, won |-> won, found |-> found]

\* saveAttempt: the upsert on (user_id, game_date); an error is only logged.
SaveEffect ==
  IF SaveDeps' # SaveDeps /\ SaveGuard'
  THEN \E ok \in BOOLEAN :
         /\ attemptRows' = IF ok
                           THEN [attemptRows EXCEPT ![gameDate'] = AttemptPayload']
                           ELSE attemptRows
         /\ lastUpsert' = [game_date |-> gameDate', row |-> AttemptPayload',
                           ok |-> ok]
  ELSE UNCHANGED <<attemptRows, lastUpsert>>

\* a change of the component's state or of the session renders it again, and
\* the render computes isTodayGame from the clock
RenderEffect ==
  isTodayGame' =
    IF reactVars' # reactVars \/ SessionUserId' # SessionUserId
    THEN IsTodayGame'
    ELSE isTodayGame

\* the list of cards is a function of guesses, allCharacters and characterOfDay
\* alone (GuessCards); the specifications of the page do not carry it, the
\* specification of the card list does
Effects(base) ==
  MirrorEffect(base) /\ SaveEffect /\ RenderEffect /\ UNCHANGED guessCards

----------------------------------------------------------------------------
(* fetchCharacterOfDay *)

\* run: where the last call of run() stands (pc: "idle" before the first call,
\* "chars" | "daily" | "attempt" at an await, "done" | "failed" once it ended:
\* "failed" when it went through the catch block), the values its closure
\* captured, and savedAttempt: "unread" | "error" | "null" | "row"
IdleRun ==
  [pc |-> "idle", sequence |-> 0, optimisticHydrated |-> FALSE,
   currentUserId |-> None, date |-> 0, savedAttempt |-> "unread"]

\* setGuesses / setLives / setWon / setFound / setGameOver of one hydration
Hydrate(g, l, w, f) ==
  /\ guesses' = g
  /\ lives' = l
  /\ won' = w
  /\ found' = f
  /\ gameOver' = (f \/ l = 0)

\* parsedGameCache.found ?? parsedGameCache.won
FoundOr(entry) == IF entry.hasFound THEN entry.found ELSE entry.won

\* lines 249-307: the optimistic read of both caches
OptimisticEntryFor(d) ==
  LET entry == gameCache[d]
  IN IF /\ charsCacheValid
        /\ entry # NoEntry
        /\ entry.dateKey = d
        /\ FindById(catalog, entry.characterId) # None
     THEN entry
     ELSE NoEntry

OptimisticEntry == OptimisticEntryFor(gameDate)

\* lines 239-318: run() up to its first await, in a render whose gameDate is d
BeginRun(d) ==
  /\ fetchSequenceRef' = fetchSequenceRef + 1
  /\ fetchInFlightRef' = TRUE
  /\ attemptHydrated' = FALSE
  /\ loadError' = ""
  /\ LET entry == OptimisticEntryFor(d)
     IN /\ IF entry # NoEntry
           THEN /\ allCharacters' = catalog
                /\ characterOfDay' = entry.characterId
                /\ Hydrate(entry.guesses, ClampLives(entry.lives), entry.won,
                           FoundOr(entry))
                /\ loading' = FALSE
           ELSE /\ guesses' = <<>>
                /\ lives' = MAX_LIVES
                /\ won' = FALSE
                /\ found' = FALSE
                /\ gameOver' = FALSE
                /\ loading' = TRUE
                /\ UNCHANGED <<allCharacters, characterOfDay>>
        /\ run' = [pc |-> "chars", sequence |-> fetchSequenceRef + 1,
                   optimisticHydrated |-> (entry # NoEntry),
                   currentUserId |-> SessionUserId, date |-> d,
                   savedAttempt |-> "unread"]

\* lines 234-318: the guard on the in-flight run, then run() up to its first await
StartLoad ==
  /\ ~fetchInFlightRef
  /\ fetchSequenceRef < MaxLoads
  /\ \/ run.pc = "idle"
     \/ (~loading /\ loadError # "")
  /\ BeginRun(gameDate)
  /\ UNCHANGED <<today, authState, charsCacheValid, catalog, dailyRows, reqs,
                 gameDate, searchValue, hs, nSubmitted, nUnmatched, sheets, otherTab, profile, signals, retry>>
  /\ Effects(gameCache)

\* a run whose last lines are not in a finally block: they are skipped when
\* the catch block ran
EndLoadM(failed, attemptRead) ==
  /\ loadError' = IF failed /\ ~run.optimisticHydrated THEN LoadErrorText
                  ELSE loadError
  /\ IF run.sequence = fetchSequenceRef /\ ~failed
     THEN attemptHydrated' = TRUE /\ loading' = FALSE
     ELSE UNCHANGED <<attemptHydrated, loading>>
  /\ run' = [run EXCEPT !.pc = IF failed THEN "failed" ELSE "done",
                        !.savedAttempt = attemptRead]
  /\ fetchInFlightRef' = FALSE

\* lines 457-478: catch (when failed), finally, and the in-flight ref cleared
EndLoad(failed, attemptRead) ==
  /\ loadError' = IF failed /\ ~run.optimisticHydrated THEN LoadErrorText
                  ELSE loadError
  /\ IF run.sequence = fetchSequenceRef
     THEN attemptHydrated' = TRUE /\ loading' = FALSE
     ELSE UNCHANGED <<attemptHydrated, loading>>
  /\ run' = [run EXCEPT !.pc = IF failed THEN "failed" ELSE "done",
                        !.savedAttempt = attemptRead]
  /\ fetchInFlightRef' = FALSE

\* lines 321-344: the characters fetch (with its retries) returns or throws
CharactersReturn ==
  /\ run.pc = "chars"
  /\ \E ok \in BOOLEAN :
       IF ok /\ run.sequence = fetchSequenceRef
       THEN /\ allCharacters' = catalog
            /\ charsCacheValid' = TRUE
            /\ run' = [run EXCEPT !.pc = "daily"]
            /\ UNCHANGED <<loadError, attemptHydrated, loading, fetchInFlightRef>>
       ELSE /\ EndLoad(~ok, "unread")
            /\ UNCHANGED <<allCharacters, charsCacheValid>>
  /\ UNCHANGED <<today, authState, catalog, dailyRows, reqs, gameDate, searchValue, lives,
                 guesses, gameOver, won, found, characterOfDay,
                 fetchSequenceRef, hs, nSubmitted, nUnmatched, sheets, otherTab, profile, signals, retry>>
  /\ Effects(gameCache)

\* lines 424-456: the local cache fallback; gives the storage it leaves
\* (the entry is removed when it is for another date or another character)
LocalFallback(selected) ==
  LET saved == gameCache[run.date]
  IN IF saved # NoEntry /\ saved.dateKey = run.date /\ saved.characterId = selected
     THEN /\ Hydrate(saved.guesses, ClampLives(saved.lives), saved.won,
                     FoundOr(saved))
          /\ Effects(gameCache)
     ELSE /\ UNCHANGED <<guesses, lives, won, found, gameOver>>
          /\ Effects([gameCache EXCEPT ![run.date] = NoEntry])

\* .eq("date", d).maybeSingle(): the row, null when there is none, an error
\* when there are several
MaybeSingle(rows) ==
  IF Len(rows) = 0 THEN None
  ELSE IF Len(rows) = 1 THEN rows[1]
  ELSE "error"

\* lines 348-376 (and 424-456 when no attempt is fetched): the daily
\* character fetch returns or throws
DailyReturn ==
  /\ run.pc = "daily"
  /\ UNCHANGED <<today, authState, charsCacheValid, catalog, dailyRows, reqs,
                 gameDate, searchValue, allCharacters, fetchSequenceRef, hs, nSubmitted, nUnmatched, sheets, otherTab, profile, signals, retry>>
  /\ \E ok \in BOOLEAN :
       LET daily == MaybeSingle(dailyRows[run.date])
           selected == IF daily \in {None, "error"} THEN None
                       ELSE FindById(catalog, daily)
       IN IF ~ok \/ daily = "error" \/ selected = None
          THEN /\ EndLoad(TRUE, "unread")
               /\ UNCHANGED <<characterOfDay, guesses, lives, won, found, gameOver>>
               /\ Effects(gameCache)
          ELSE IF run.sequence # fetchSequenceRef
          THEN /\ EndLoad(FALSE, "unread")
               /\ UNCHANGED <<characterOfDay, guesses, lives, won, found, gameOver>>
               /\ Effects(gameCache)
          ELSE IF run.currentUserId # None
          THEN /\ characterOfDay' = selected
               /\ run' = [run EXCEPT !.pc = "attempt"]
               /\ UNCHANGED <<loadError, attemptHydrated, loading,
                              fetchInFlightRef, guesses, lives, won, found,
                              gameOver>>
               /\ Effects(gameCache)
          ELSE /\ characterOfDay' = selected
               /\ EndLoad(FALSE, "unread")
               /\ LocalFallback(selected)

\* the found flag read from the row as it is stored, without the won flag
SavedFoundM(row) == row.found

\* line 413: Boolean(savedAttempt.found || savedAttempt.won)
SavedFound(row) == row.found \/ row.won

\* lines 378-456: the saved attempt fetch returns a row or null ("ok"),
\* returns an error, or throws (timed out on every try)
AttemptReturn ==
  /\ run.pc = "attempt"
  /\ UNCHANGED <<today, authState, charsCacheValid, catalog, dailyRows, reqs,
                 gameDate, searchValue, characterOfDay, allCharacters, fetchSequenceRef,
                 hs, nSubmitted, nUnmatched, sheets, otherTab, profile, signals, retry>>
  /\ \E res \in {"ok", "error", "timeout"} :
       LET savedAttempt == IF res = "ok" THEN attemptRows[run.date] ELSE NoAttempt
       IN IF res = "timeout"
          THEN /\ EndLoad(TRUE, "error")
               /\ UNCHANGED <<guesses, lives, won, found, gameOver>>
               /\ Effects(gameCache)
          ELSE IF savedAttempt # NoAttempt
          THEN IF run.sequence # fetchSequenceRef
               THEN /\ EndLoad(FALSE, "row")
                    /\ UNCHANGED <<guesses, lives, won, found, gameOver>>
                    /\ Effects(gameCache)
               ELSE /\ Hydrate(savedAttempt.guesses,
                               ClampLives(savedAttempt.lives_remaining),
                               savedAttempt.won, SavedFound(savedAttempt))
                    /\ EndLoad(FALSE, "row")
                    /\ Effects(gameCache)
          ELSE /\ EndLoad(FALSE, IF res = "ok" THEN "null" ELSE "error")
               /\ LocalFallback(characterOfDay)

----------------------------------------------------------------------------
(* handleGuess *)

IdleHandler ==
  [pc |-> "idle", guess |-> "", id |-> None, newGuesses |-> <<>>, lives |-> 0,
   isTodayGame |-> FALSE, characterOfDay |-> None, sessionUserId |-> None,
   date |-> 0, read |-> 0]

\* the search bar is rendered (lines 674-778)
SearchBarShown ==
  /\ ~loading
  /\ loadError = ""
  /\ characterOfDay # None
  /\ ~gameOver

\* the daily_guess and daily_character_reveal procedures know the row of the date
ServerTarget(d) == MaybeSingle(dailyRows[d])

\* lines 559-585: handleGuess(guess) up to its first await, in a free slot
HandleGuess(h, guess) ==
  /\ hs[h].pc = "idle"
  /\ \A k \in 1..MaxHandlers : hs[k].pc = "idle" => h <= k
  /\ SearchBarShown
  /\ nSubmitted < MaxGuesses
  /\ LET matchedCharacter == FindByName(allCharacters, guess)
           newGuesses == Append(guesses, matchedCharacter)
           isFirstGuess == Len(guesses) = 0
           closure == [pc |-> "validate", guess |-> guess,
                       id |-> matchedCharacter,
                       newGuesses |-> newGuesses, lives |-> lives,
                       isTodayGame |-> isTodayGame,
                       characterOfDay |-> characterOfDay,
                       sessionUserId |-> SessionUserId, date |-> gameDate,
                       read |-> 0]
       IN IF gameOver \/ characterOfDay = None
          THEN UNCHANGED <<guesses, hs, nSubmitted, nUnmatched, searchValue>>
          ELSE IF matchedCharacter = None
          THEN /\ nUnmatched < MaxUnmatched
               /\ searchValue' = ""
               /\ nUnmatched' = nUnmatched + 1
               /\ UNCHANGED <<guesses, hs, nSubmitted>>
          ELSE IF isFirstGuess /\ isTodayGame /\ SessionUserId # None
          THEN /\ hs' = [hs EXCEPT ![h] = [closure EXCEPT !.pc = "games_played"]]
               /\ nSubmitted' = nSubmitted + 1
               /\ UNCHANGED <<guesses, nUnmatched, searchValue>>
          ELSE /\ hs' = [hs EXCEPT ![h] = closure]
               /\ nSubmitted' = nSubmitted + 1
               /\ guesses' = newGuesses
               /\ UNCHANGED <<nUnmatched, searchValue>>
  /\ UNCHANGED <<today, authState, charsCacheValid, catalog, dailyRows, reqs,
                 gameDate, lives, gameOver, won, found, characterOfDay,
                 allCharacters, loading, loadError, attemptHydrated,
                 fetchInFlightRef, fetchSequenceRef, run, sheets,
                 otherTab, profile, signals, retry>>
  /\ Effects(gameCache)

\* line 768: onChange={setSearchValue}, the player types into the input
OnChange ==
  /\ SearchBarShown
  /\ \E text \in Tokens : searchValue' = text
  /\ UNCHANGED <<today, authState, charsCacheValid, catalog, dailyRows, reqs,
                 gameDate, lives, guesses, gameOver, won, found,
                 characterOfDay, allCharacters, loading, loadError,
                 attemptHydrated, fetchInFlightRef, fetchSequenceRef, run, hs,
                 nSubmitted, nUnmatched, sheets, otherTab, profile, signals, retry>>
  /\ Effects(gameCache)

\* the player submits the name of a character
SubmitGuess(h) == \E guess \in Names : HandleGuess(h, guess)

\* the player submits any token
SubmitToken(h) == \E guess \in Tokens : HandleGuess(h, guess)

\* lines 576-585: incrementGamesPlayedDirect returned or threw; setGuesses
GamesPlayedReturn(h) ==
  /\ hs[h].pc = "games_played"
  /\ guesses' = hs[h].newGuesses
  /\ hs' = [hs EXCEPT ![h].pc = "validate"]
  /\ UNCHANGED <<today, authState, charsCacheValid, catalog, dailyRows, reqs,
                 gameDate, searchValue, lives, gameOver, won, found, characterOfDay,
                 allCharacters, loading, loadError, attemptHydrated,
                 fetchInFlightRef, fetchSequenceRef, run, nSubmitted, nUnmatched, sheets, otherTab, profile, signals, retry>>
  /\ Effects(gameCache)

\* lines 594-596: backendIsCorrect ?? (the names match, case-insensitively);
\* verdict is "none" when the procedure failed or gave no boolean
IsCorrectGuess(verdict, id, target) ==
  IF verdict # "none" THEN verdict = "true"
  ELSE ToLowerCase(NameOf(id)) = ToLowerCase(NameOf(target))

\* won, as line 600 sets it
WonOnCorrect(captured) == captured

\* lives, as lines 614-615 set them
LivesOnIncorrect(capturedLives) == capturedLives - 1

\* lines 587-625: validateGuessOnBackend returned or threw; the guess is scored
ValidateReturn(h) ==
  /\ hs[h].pc = "validate"
  /\ \E answered \in BOOLEAN :
       LET verdict == IF ~answered THEN "none"
                      ELSE IF hs[h].id = ServerTarget(hs[h].date) THEN "true"
                      ELSE "false"
           newLives == LivesOnIncorrect(hs[h].lives)
       IN IF IsCorrectGuess(verdict, hs[h].id, hs[h].characterOfDay)
          THEN /\ found' = TRUE
               /\ won' = WonOnCorrect(hs[h].isTodayGame)
               /\ gameOver' = TRUE
               /\ hs' = IF hs[h].isTodayGame /\ hs[h].sessionUserId # None
                        THEN [hs EXCEPT ![h].pc = "wins"]
                        ELSE [hs EXCEPT ![h] = IdleHandler]
               /\ UNCHANGED lives
          ELSE /\ lives' = newLives
               /\ gameOver' = IF newLives = 0 THEN TRUE ELSE gameOver
               /\ hs' = IF newLives = 0
                        THEN [hs EXCEPT ![h].pc = "reveal"]
                        ELSE [hs EXCEPT ![h] = IdleHandler]
               /\ UNCHANGED <<found, won>>
  \* line 627, when no further call is awaited
  /\ searchValue' = IF hs'[h].pc = "idle" THEN "" ELSE searchValue
  /\ UNCHANGED <<today, authState, charsCacheValid, catalog, dailyRows, reqs,
                 gameDate, guesses, characterOfDay, allCharacters, loading,
                 loadError, attemptHydrated, fetchInFlightRef,
                 fetchSequenceRef, run, nSubmitted, nUnmatched, sheets, otherTab, profile, signals, retry>>
  /\ Effects(gameCache)

\* lines 604-612, 627: incrementWinsDirect returned or threw
WinsReturn(h) ==
  /\ hs[h].pc = "wins"
  /\ hs' = [hs EXCEPT ![h] = IdleHandler]
  /\ searchValue' = ""
  /\ UNCHANGED <<today, authState, charsCacheValid, catalog, dailyRows, reqs,
                 gameDate, lives, guesses, gameOver, won, found,
                 characterOfDay, allCharacters, loading, loadError,
                 attemptHydrated, fetchInFlightRef, fetchSequenceRef, run,
                 nSubmitted, nUnmatched, sheets, otherTab, profile, signals, retry>>
  /\ Effects(gameCache)

\* lines 498-510, 619-627: daily_character_reveal returned or failed
RevealReturn(h) ==
  /\ hs[h].pc = "reveal"
  /\ \E ok \in BOOLEAN :
       LET revealedCharacter == IF ok
                                THEN FindById(allCharacters, ServerTarget(hs[h].date))
                                ELSE None
       IN characterOfDay' = IF revealedCharacter # None THEN revealedCharacter
                            ELSE characterOfDay
  /\ hs' = [hs EXCEPT ![h] = IdleHandler]
  /\ searchValue' = ""
  /\ UNCHANGED <<today, authState, charsCacheValid, catalog, dailyRows, reqs,
                 gameDate, lives, guesses, gameOver, won, found,
                 allCharacters, loading, loadError, attemptHydrated,
                 fetchInFlightRef, fetchSequenceRef, run, nSubmitted, nUnmatched, sheets, otherTab, profile, signals, retry>>
  /\ Effects(gameCache)

\* a call awaited by handleGuess before the guess is scored never settles
\* (lines 578 and 589 await without a timeout): the handler stays at that
\* await for good
PendingForever(pc) ==
  IF pc = "games_played" THEN "games_played_hung" ELSE "validate_hung"

NeverResponds(h) ==
  /\ hs[h].pc \in {"games_played", "validate"}
  /\ hs' = [hs EXCEPT ![h].pc = PendingForever(hs[h].pc)]
  /\ UNCHANGED <<today, authState, charsCacheValid, gameCache, catalog,
                 dailyRows, reqs, attemptRows, reactVars, fetchInFlightRef,
                 fetchSequenceRef, run, nSubmitted, nUnmatched, sheets, otherTab, profile, signals, retry, isTodayGame, lastUpsert, guessCards>>

----------------------------------------------------------------------------
(* The environment of the page *)

\* midnight UTC passes
Tick ==
  /\ today < MaxDay
  /\ today' = today + 1
  /\ UNCHANGED <<authState, charsCacheValid, gameCache, catalog, dailyRows, reqs,
                 attemptRows, reactVars, fetchInFlightRef, fetchSequenceRef,
                 run, hs, nSubmitted, nUnmatched, sheets, otherTab, profile, signals, retry, isTodayGame, lastUpsert, guessCards>>

\* AuthSessionProvider: getSession() resolves to the signed-in user; the page
\* renders again with sessionUser set
AuthResolve ==
  /\ authState = "pending"
  /\ authState' = "user"
  /\ UNCHANGED <<today, charsCacheValid, catalog, dailyRows, reqs, reactVars,
                 fetchInFlightRef, fetchSequenceRef, run, hs, nSubmitted, nUnmatched, sheets, otherTab, profile, signals, retry>>
  /\ Effects(gameCache)

----------------------------------------------------------------------------
(* The daily-character route: GET *)

\* a request: pc is "idle", the await it stands at ("query" | "characters" |
\* "insert" | "character"), or how it ended ("ok": 200, "notfound": 404,
\* "failed": 500, with the call that threw in error)
IdleRequest ==
  [pc |-> "idle", today |-> 0, characterId |-> None, created |-> FALSE,
   error |-> None]

\* the query without its date filter: the rows of the earliest stored date
QueryDailyM(rows, date) ==
  rows[Min({d \in Days : Len(rows[d]) > 0} \cup {date})]

\* .from("daily_characters").select("character_id").eq("date", date)
QueryDaily(rows, date) == rows[date]

\* .single(): the row, or the PGRST116 error when there is none
SingleOrNone(rows) == IF Len(rows) = 1 THEN rows[1] ELSE None

\* the day of the year of day d: the days of the model are the first days of
\* one year, and the server's clock is UTC
DayOfYear(d) == d

\* lines 210-216: allCharacters[dayOfYear % allCharacters.length].id
SelectCharacter(chars, d) == chars[(DayOfYear(d) % Len(chars)) + 1]

\* daily_characters holds one row per date: an insert for a date that has a
\* row is rejected
InsertAccepted(rows, date) == Len(rows[date]) = 0

\* .from("daily_characters").insert({ date, character_id })
InsertDaily(rows, date, id) == [rows EXCEPT ![date] = Append(rows[date], id)]

\* lines 173-177: a request arrives; today is read
GetStart(r) ==
  /\ reqs[r].pc \in {"idle", "ok", "notfound", "failed"}
  /\ reqs' = [reqs EXCEPT ![r] = [IdleRequest EXCEPT !.pc = "query",
                                                    !.today = today]]
  /\ UNCHANGED <<today, authState, charsCacheValid, gameCache, catalog,
                 dailyRows, attemptRows, reactVars, fetchInFlightRef,
                 fetchSequenceRef, run, hs, nSubmitted, nUnmatched, sheets, otherTab, profile, signals, retry, isTodayGame, lastUpsert, guessCards>>

\* lines 180-198: the query for today's row returns
GetQuery(r) ==
  /\ reqs[r].pc = "query"
  /\ LET characterId == SingleOrNone(QueryDaily(dailyRows, reqs[r].today))
     IN reqs' = IF characterId = None
                THEN [reqs EXCEPT ![r].pc = "characters"]
                ELSE [reqs EXCEPT ![r].pc = "character",
                                  ![r].characterId = characterId]
  /\ UNCHANGED <<today, authState, charsCacheValid, gameCache, catalog,
                 dailyRows, attemptRows, reactVars, fetchInFlightRef,
                 fetchSequenceRef, run, hs, nSubmitted, nUnmatched, sheets, otherTab, profile, signals, retry, isTodayGame, lastUpsert, guessCards>>

\* lines 200-225: fetchCharacters returns; the character of the day is
\* selected from the clock as it is now, and its insert is sent
GetCharacters(r) ==
  /\ reqs[r].pc = "characters"
  /\ reqs' = IF Len(catalog) = 0
             THEN [reqs EXCEPT ![r].pc = "notfound"]
             ELSE [reqs EXCEPT ![r].pc = "insert",
                               ![r].characterId = SelectCharacter(catalog, today)]
  /\ UNCHANGED <<today, authState, charsCacheValid, gameCache, catalog,
                 dailyRows, attemptRows, reactVars, fetchInFlightRef,
                 fetchSequenceRef, run, hs, nSubmitted, nUnmatched, sheets, otherTab, profile, signals, retry, isTodayGame, lastUpsert, guessCards>>

\* lines 220-231: the insert returns
GetInsert(r) ==
  /\ reqs[r].pc = "insert"
  /\ IF InsertAccepted(dailyRows, reqs[r].today)
     THEN /\ dailyRows' = InsertDaily(dailyRows, reqs[r].today, reqs[r].characterId)
          /\ reqs' = [reqs EXCEPT ![r].pc = "character", ![r].created = TRUE]
     ELSE /\ reqs' = [reqs EXCEPT ![r].pc = "failed", ![r].error = "insert"]
          /\ UNCHANGED dailyRows
  /\ UNCHANGED <<today, authState, charsCacheValid, gameCache, catalog,
                 attemptRows, reactVars, fetchInFlightRef, fetchSequenceRef,
                 run, hs, nSubmitted, nUnmatched, sheets, otherTab, profile, signals, retry, isTodayGame, lastUpsert, guessCards>>

\* lines 236-258: the full character is fetched by id and returned
GetCharacter(r) ==
  /\ reqs[r].pc = "character"
  /\ reqs' = IF FindById(catalog, reqs[r].characterId) = None
             THEN [reqs EXCEPT ![r].pc = "failed", ![r].error = "character"]
             ELSE [reqs EXCEPT ![r].pc = "ok"]
  /\ UNCHANGED <<today, authState, charsCacheValid, gameCache, catalog,
                 dailyRows, attemptRows, reactVars, fetchInFlightRef,
                 fetchSequenceRef, run, hs, nSubmitted, nUnmatched, sheets, otherTab, profile, signals, retry, isTodayGame, lastUpsert, guessCards>>

\* the characters in ascending order, without the ones not in S
Ascending(S) ==
  LET all == <<"c1", "c2", "c3">>
      F[i \in 0..Len(all)] ==
        IF i = 0 THEN <<>>
        ELSE IF all[i] \in S THEN Append(F[i - 1], all[i]) ELSE F[i - 1]
  IN F[Len(all)]

CatalogSet == {catalog[i] : i \in 1..Len(catalog)}

\* the admin panel adds or deletes a character
AdminChange ==
  /\ \E c \in CharacterIds :
       catalog' = IF c \in CatalogSet THEN Ascending(CatalogSet \ {c})
                  ELSE Ascending(CatalogSet \cup {c})
  /\ UNCHANGED <<today, authState, charsCacheValid, gameCache, dailyRows,
                 attemptRows, reactVars, fetchInFlightRef, fetchSequenceRef,
                 run, hs, nSubmitted, nUnmatched, sheets, otherTab, profile, signals, retry, isTodayGame, lastUpsert, guessCards, reqs>>

----------------------------------------------------------------------------
(* The stored progress a page load may find *)

NineWrong == <<"c1", "c1", "c1", "c1", "c1", "c1", "c1", "c1", "c1">>

StoredAttempts ==
  { NoAttempt,
    [guesses |-> <<"c1">>, lives_remaining |-> 9, won |-> FALSE, found |-> FALSE],
    [guesses |-> NineWrong, lives_remaining |-> 1, won |-> FALSE, found |-> FALSE],
    \* a finished game
    [guesses |-> <<"c1", "c2">>, lives_remaining |-> 9, won |-> TRUE, found |-> TRUE],
    \* a row written before the found column existed
    [guesses |-> <<"c1", "c2">>, lives_remaining |-> 9, won |-> TRUE, found |-> FALSE] }

StoredEntries(d) ==
  { NoEntry,
    [dateKey |-> d, characterId |-> "c2", guesses |-> <<"c1", "c3">>,
     lives |-> 8, won |-> FALSE, found |-> FALSE, hasFound |-> TRUE],
    \* written when another character was the target
    [dateKey |-> d, characterId |-> "c3", guesses |-> <<"c1">>,
     lives |-> 9, won |-> FALSE, found |-> FALSE, hasFound |-> TRUE],
    [dateKey |-> d, characterId |-> "c2", guesses |-> NineWrong,
     lives |-> 1, won |-> FALSE, found |-> FALSE, hasFound |-> TRUE],
    \* written by a version that stored no found flag
    [dateKey |-> d, characterId |-> "c2", guesses |-> <<"c1", "c2">>,
     lives |-> 9, won |-> TRUE, found |-> FALSE, hasFound |-> FALSE] }

\* the catalog and the daily row of the dates up to today: the usual case, no
\* row stored, the row's character deleted from the catalog, an empty catalog
Backends ==
  { [catalog |-> <<"c1", "c2", "c3">>, row |-> <<"c2">>],
    [catalog |-> <<"c1", "c2", "c3">>, row |-> <<>>],
    [catalog |-> <<"c1", "c3">>, row |-> <<"c2">>],
    [catalog |-> <<>>, row |-> <<"c2">>] }

Init ==
  /\ today = 1
  /\ authState \in {"pending", "anon", "user"}
  /\ charsCacheValid \in BOOLEAN
  /\ gameDate \in {0, 1}
  /\ \E e \in StoredEntries(gameDate) :
       gameCache = [d \in Days |-> IF d = gameDate THEN e ELSE NoEntry]
  /\ \E b \in Backends :
       /\ catalog = b.catalog
       /\ dailyRows = [d \in Days |-> IF d <= 1 THEN b.row ELSE <<>>]
  /\ \E a \in StoredAttempts :
       attemptRows = [d \in Days |-> IF d = gameDate THEN a ELSE NoAttempt]
  \* useState initial values, lines 83-100
  /\ lives = MAX_LIVES
  /\ guesses = <<>>
  /\ gameOver = FALSE
  /\ won = FALSE
  /\ found = FALSE
  /\ characterOfDay = None
  /\ allCharacters = <<>>
  /\ loading = TRUE
  /\ loadError = ""
  /\ attemptHydrated = FALSE
  /\ fetchInFlightRef = FALSE
  /\ fetchSequenceRef = 0
  /\ run = IdleRun
  /\ hs = [h \in 1..MaxHandlers |-> IdleHandler]
  /\ nSubmitted = 0
  /\ reqs = [r \in 1..MaxRequests |-> IdleRequest]
  /\ nUnmatched = 0
  /\ searchValue = ""
  /\ isTodayGame = IsTodayGame
  /\ lastUpsert = NoUpsert
  /\ sheets = DefaultSheets
  /\ guessCards = <<>>
  /\ otherTab = NoTab
  /\ profile = NewProfile
  /\ signals = NoSignals
  /\ retry = NoRetry

Next ==
  \/ StartLoad
  \/ CharactersReturn
  \/ DailyReturn
  \/ AttemptReturn
  \/ \E h \in 1..MaxHandlers : SubmitGuess(h)
  \/ \E h \in 1..MaxHandlers : GamesPlayedReturn(h)
  \/ \E h \in 1..MaxHandlers : ValidateReturn(h)
  \/ \E h \in 1..MaxHandlers : WinsReturn(h)
  \/ \E h \in 1..MaxHandlers : RevealReturn(h)
  \/ Tick
  \/ AuthResolve

Spec == Init /\ [][Next]_vars

\* The guesses of a loaded page: the load of gameDate has ended with target
\* c2, at the start of the game or one life before its end; the player types
\* and submits any token, and awaited calls may never settle
LoadedProgress ==
  { [guesses |-> <<>>, lives |-> MAX_LIVES],
    [guesses |-> NineWrong, lives |-> 1] }

InitGuess ==
  /\ today = 1
  /\ authState \in {"anon", "user"}
  /\ charsCacheValid = TRUE
  /\ gameDate \in {0, 1}
  /\ catalog = <<"c1", "c2", "c3">>
  /\ dailyRows = [d \in Days |-> IF d <= 1 THEN <<"c2">> ELSE <<>>]
  /\ characterOfDay = "c2"
  /\ allCharacters = catalog
  /\ \E p \in LoadedProgress :
       /\ guesses = p.guesses
       /\ lives = p.lives
  /\ gameOver = FALSE
  /\ won = FALSE
  /\ found = FALSE
  /\ attemptHydrated = TRUE
  /\ gameCache = [d \in Days |-> IF d = gameDate THEN CachePayload ELSE NoEntry]
  /\ attemptRows = [d \in Days |-> IF d = gameDate /\ SaveGuard
                                   THEN AttemptPayload ELSE NoAttempt]
  /\ loading = FALSE
  /\ loadError = ""
  /\ fetchInFlightRef = FALSE
  /\ fetchSequenceRef = 1
  /\ run = [pc |-> "done", sequence |-> 1, optimisticHydrated |-> FALSE,
            currentUserId |-> SessionUserId, date |-> gameDate,
            savedAttempt |-> IF SaveGuard THEN "row"
                             ELSE IF SessionUserId # None THEN "null"
                             ELSE "unread"]
  /\ hs = [h \in 1..MaxHandlers |-> IdleHandler]
  /\ nSubmitted = 0
  /\ reqs = [r \in 1..MaxRequests |-> IdleRequest]
  /\ nUnmatched = 0
  /\ searchValue = ""
  /\ isTodayGame = IsTodayGame
  /\ lastUpsert = NoUpsert
  /\ sheets = DefaultSheets
  /\ guessCards = <<>>
  /\ otherTab = NoTab
  /\ profile = NewProfile
  /\ signals = NoSignals
  /\ retry = NoRetry

NextGuess ==
  \/ OnChange
  \/ \E h \in 1..MaxHandlers : SubmitToken(h)
  \/ \E h \in 1..MaxHandlers : GamesPlayedReturn(h)
  \/ \E h \in 1..MaxHandlers : ValidateReturn(h)
  \/ \E h \in 1..MaxHandlers : WinsReturn(h)
  \/ \E h \in 1..MaxHandlers : RevealReturn(h)
  \/ \E h \in 1..MaxHandlers : NeverResponds(h)
  \/ Tick

SpecGuess == InitGuess /\ [][NextGuess]_vars

----------------------------------------------------------------------------
(* A mounted page whose date changes: forcedDate is a prop, gameDate is
   memoised on it, and the load effect depends on gameDate *)

\* the dates the player can select
SelectableDates == {0, 1}

\* the character of each date
DatedRows == [d \in Days |-> IF d = 0 THEN <<"c1">>
                            ELSE IF d = 1 THEN <<"c2">> ELSE <<>>]

TargetOf(d) == MaybeSingle(DatedRows[d])

\* the wrong guesses of the games of each date: "c3" on date 0, "c1" on date 1
WrongOf(d) == IF d = 0 THEN "c3" ELSE "c1"

\* what the browser and the backend may hold for a date before the page mounts
DatedEntries(d) ==
  { NoEntry,
    [dateKey |-> d, characterId |-> TargetOf(d),
     guesses |-> <<WrongOf(d), WrongOf(d)>>,
     lives |-> 8, won |-> FALSE, found |-> FALSE, hasFound |-> TRUE] }

DatedAttempts(d) ==
  { NoAttempt,
    [guesses |-> <<WrongOf(d)>>, lives_remaining |-> 9, won |-> FALSE,
     found |-> FALSE] }

InitDate ==
  /\ today = 1
  /\ authState \in {"anon", "user"}
  /\ charsCacheValid \in BOOLEAN
  /\ gameDate \in SelectableDates
  /\ \E e0 \in DatedEntries(0), e1 \in DatedEntries(1) :
       gameCache = [d \in Days |-> IF d = 0 THEN e0
                                   ELSE IF d = 1 THEN e1 ELSE NoEntry]
  /\ catalog = <<"c1", "c2", "c3">>
  /\ dailyRows = DatedRows
  /\ \E a0 \in DatedAttempts(0), a1 \in DatedAttempts(1) :
       attemptRows = [d \in Days |-> IF d = 0 THEN a0
                                     ELSE IF d = 1 THEN a1 ELSE NoAttempt]
  /\ lives = MAX_LIVES
  /\ guesses = <<>>
  /\ gameOver = FALSE
  /\ won = FALSE
  /\ found = FALSE
  /\ characterOfDay = None
  /\ allCharacters = <<>>
  /\ loading = TRUE
  /\ loadError = ""
  /\ attemptHydrated = FALSE
  /\ fetchInFlightRef = FALSE
  /\ fetchSequenceRef = 0
  /\ run = IdleRun
  /\ hs = [h \in 1..MaxHandlers |-> IdleHandler]
  /\ nSubmitted = 0
  /\ reqs = [r \in 1..MaxRequests |-> IdleRequest]
  /\ nUnmatched = 0
  /\ searchValue = ""
  /\ isTodayGame = IsTodayGame
  /\ lastUpsert = NoUpsert
  /\ sheets = DefaultSheets
  /\ guessCards = <<>>
  /\ otherTab = NoTab
  /\ profile = NewProfile
  /\ signals = NoSignals
  /\ retry = NoRetry

\* lines 512-523 in the render that first sees date d: the state of the last
\* render is written under d's key
MirroredUnder(d) ==
  IF characterOfDay # None
  THEN [gameCache EXCEPT ![d] = [CachePayload EXCEPT !.dateKey = d]]
  ELSE gameCache

\* lines 102-126, 234-237, 512-557: forcedDate changes to d.  The render with
\* the new gameDate runs its effects in the order of their declaration: the
\* load effect (which returns the run in flight, if any, and otherwise runs
\* run() up to its first await), the mirror effect and the save effect, both
\* with the state of that render; the state the load set is rendered next,
\* and the mirror effect runs again.
DateChanges(d) ==
  /\ d # gameDate
  /\ run.pc # "idle"
  /\ gameDate' = d
  /\ isTodayGame' = (d = today)
  /\ IF SaveGuard
     THEN \E ok \in BOOLEAN :
            /\ attemptRows' = IF ok
                              THEN [attemptRows EXCEPT ![d] = AttemptPayload]
                              ELSE attemptRows
            /\ lastUpsert' = [game_date |-> d, row |-> AttemptPayload, ok |-> ok]
     ELSE UNCHANGED <<attemptRows, lastUpsert>>
  /\ IF fetchInFlightRef
     THEN /\ gameCache' = MirroredUnder(d)
          /\ UNCHANGED <<lives, guesses, gameOver, won, found, characterOfDay,
                         allCharacters, loading, loadError, attemptHydrated,
                         fetchInFlightRef, fetchSequenceRef, run>>
     ELSE /\ fetchSequenceRef < MaxLoads
          /\ BeginRun(d)
          /\ gameCache' =
               IF /\ characterOfDay' # None
                  /\ <<characterOfDay', guesses', lives', won', found'>>
                       # <<characterOfDay, guesses, lives, won, found>>
               THEN [MirroredUnder(d) EXCEPT ![d] = CachePayload']
               ELSE MirroredUnder(d)
  /\ UNCHANGED <<today, authState, charsCacheValid, catalog, dailyRows, reqs,
                 searchValue, hs, nSubmitted, nUnmatched, sheets, otherTab, profile, signals, retry, guessCards>>

NextDate ==
  \/ StartLoad
  \/ CharactersReturn
  \/ DailyReturn
  \/ AttemptReturn
  \/ \E d \in SelectableDates : DateChanges(d)

SpecDate == InitDate /\ [][NextDate]_vars

----------------------------------------------------------------------------
(* Two pages of the same user on the same date.  The first is the page of
   this model; of the second only the game and its upserts are carried (its
   local storage is its own). *)

FreshTab ==
  [present |-> TRUE, guesses |-> <<>>, lives |-> MAX_LIVES, won |-> FALSE,
   found |-> FALSE]

\* the payload of saveAttempt, lines 531-538
TabRecord(t) ==
  [guesses |-> t.guesses, lives_remaining |-> t.lives, won |-> t.won,
   found |-> t.found]

\* lines 559-627 and 525-557 on the second page: a guess is scored and the
\* whole record is upserted
OtherTabGuess(id) ==
  /\ otherTab # NoTab
  /\ ~(otherTab.found \/ otherTab.lives = 0)
  /\ Len(otherTab.guesses) < MaxOtherGuesses
  /\ LET correct == id = ServerTarget(gameDate)
         t == [otherTab EXCEPT !.guesses = Append(@, id),
                               !.lives = IF correct THEN @ ELSE @ - 1,
                               !.found = correct,
                               !.won = correct /\ gameDate = today]
     IN /\ otherTab' = t
        /\ attemptRows' = [attemptRows EXCEPT ![gameDate] = TabRecord(t)]
  /\ UNCHANGED <<today, authState, charsCacheValid, gameCache, catalog,
                 dailyRows, reqs, reactVars, fetchInFlightRef,
                 fetchSequenceRef, run, hs, nSubmitted, nUnmatched, sheets,
                 isTodayGame, lastUpsert, guessCards, profile,
                 signals, retry>>

\* lines 378-422 on the second page: a load hydrates it from the remote record
OtherTabLoad ==
  /\ otherTab # NoTab
  /\ attemptRows[gameDate] # NoAttempt
  /\ LET row == attemptRows[gameDate]
     IN otherTab' = [present |-> TRUE, guesses |-> row.guesses,
                     lives |-> ClampLives(row.lives_remaining),
                     won |-> row.won, found |-> SavedFound(row)]
  /\ otherTab' # otherTab
  /\ UNCHANGED <<today, authState, charsCacheValid, gameCache, catalog,
                 dailyRows, reqs, attemptRows, reactVars, fetchInFlightRef,
                 fetchSequenceRef, run, hs, nSubmitted, nUnmatched, sheets,
                 isTodayGame, lastUpsert, guessCards, profile,
                 signals, retry>>

\* the player reloads the first page: the component mounts again with the
\* initial values of its state and refs (lines 82-100)
Reload ==
  /\ run.pc \in {"done", "failed"}
  /\ \A h \in 1..MaxHandlers : hs[h].pc = "idle"
  /\ lives' = MAX_LIVES
  /\ guesses' = <<>>
  /\ gameOver' = FALSE
  /\ won' = FALSE
  /\ found' = FALSE
  /\ characterOfDay' = None
  /\ allCharacters' = <<>>
  /\ loading' = TRUE
  /\ loadError' = ""
  /\ attemptHydrated' = FALSE
  /\ searchValue' = ""
  /\ fetchInFlightRef' = FALSE
  /\ fetchSequenceRef' = 0
  /\ run' = IdleRun
  /\ isTodayGame' = IsTodayGame
  /\ UNCHANGED <<today, authState, charsCacheValid, gameCache, catalog,
                 dailyRows, reqs, attemptRows, gameDate, hs, nSubmitted,
                 nUnmatched, sheets, lastUpsert, guessCards, otherTab, profile,
                 signals, retry>>

InitTabs ==
  /\ today = 1
  /\ authState = "user"
  /\ charsCacheValid \in BOOLEAN
  /\ gameDate = 1
  /\ gameCache = [d \in Days |-> NoEntry]
  /\ catalog = <<"c1", "c2", "c3">>
  /\ dailyRows = [d \in Days |-> IF d <= 1 THEN <<"c2">> ELSE <<>>]
  \* the second page is open already: with no guess yet, or with nine wrong
  \* guesses that it has upserted
  /\ otherTab \in {FreshTab, [FreshTab EXCEPT !.guesses = NineWrong, !.lives = 1]}
  /\ attemptRows = [d \in Days |-> IF d = gameDate /\ Len(otherTab.guesses) > 0
                                   THEN TabRecord(otherTab) ELSE NoAttempt]
  /\ lives = MAX_LIVES
  /\ guesses = <<>>
  /\ gameOver = FALSE
  /\ won = FALSE
  /\ found = FALSE
  /\ characterOfDay = None
  /\ allCharacters = <<>>
  /\ loading = TRUE
  /\ loadError = ""
  /\ attemptHydrated = FALSE
  /\ fetchInFlightRef = FALSE
  /\ fetchSequenceRef = 0
  /\ run = IdleRun
  /\ hs = [h \in 1..MaxHandlers |-> IdleHandler]
  /\ nSubmitted = 0
  /\ reqs = [r \in 1..MaxRequests |-> IdleRequest]
  /\ nUnmatched = 0
  /\ searchValue = ""
  /\ isTodayGame = IsTodayGame
  /\ lastUpsert = NoUpsert
  /\ sheets = DefaultSheets
  /\ guessCards = <<>>
  /\ profile = NewProfile
  /\ signals = NoSignals
  /\ retry = NoRetry

NextTabs ==
  \/ StartLoad
  \/ CharactersReturn
  \/ DailyReturn
  \/ AttemptReturn
  \/ \E h \in 1..MaxHandlers : SubmitGuess(h)
  \/ \E h \in 1..MaxHandlers : GamesPlayedReturn(h)
  \/ \E h \in 1..MaxHandlers : ValidateReturn(h)
  \/ \E h \in 1..MaxHandlers : WinsReturn(h)
  \/ \E h \in 1..MaxHandlers : RevealReturn(h)
  \/ \E id \in CharacterIds : OtherTabGuess(id)
  \/ OtherTabLoad
  \/ Reload

SpecTabs == InitTabs /\ [][NextTabs]_vars

----------------------------------------------------------------------------
(* The card list of a page that shows some guesses: the characters' attributes
   and the guesses are drawn from bounded sets, and the render draws the cards *)

\* the guess lists a game may hold: the character of the day, if guessed, is
\* the last guess
GuessLists ==
  {<<>>} \cup {<<a>> : a \in CharacterIds}
         \cup {<<a, b>> : a \in CharacterIds \ {"c2"}, b \in CharacterIds}

\* the attributes the character of the day may have
TargetSheets ==
  {Sheet(age, state, classes, OthersB) :
     age \in {Null, Num(30)}, state \in {Null, Obj("s1")},
     classes \in {<<"k1">>, <<"k2", "k1">>}}

WrongGuesses(gs) == Cardinality({i \in 1..Len(gs) : gs[i] # "c2"})

InitCard ==
  /\ today = 1
  /\ authState = "anon"
  /\ charsCacheValid = TRUE
  /\ gameDate = 1
  /\ catalog = <<"c1", "c2", "c3">>
  /\ dailyRows = [d \in Days |-> IF d <= 1 THEN <<"c2">> ELSE <<>>]
  /\ characterOfDay = "c2"
  /\ allCharacters \in {<<"c1", "c2", "c3">>, <<"c1", "c2">>}
  /\ guesses \in GuessLists
  /\ Len(guesses) <= MaxCards
  /\ lives = MAX_LIVES - WrongGuesses(guesses)
  /\ found = (\E i \in 1..Len(guesses) : guesses[i] = "c2")
  /\ won = found
  /\ gameOver = found
  /\ attemptHydrated = TRUE
  /\ gameCache = [d \in Days |-> IF d = gameDate THEN CachePayload ELSE NoEntry]
  /\ attemptRows = [d \in Days |-> NoAttempt]
  /\ loading = FALSE
  /\ loadError = ""
  /\ fetchInFlightRef = FALSE
  /\ fetchSequenceRef = 1
  /\ run = [pc |-> "done", sequence |-> 1, optimisticHydrated |-> FALSE,
            currentUserId |-> None, date |-> gameDate, savedAttempt |-> "unread"]
  /\ hs = [h \in 1..MaxHandlers |-> IdleHandler]
  /\ nSubmitted = 0
  /\ reqs = [r \in 1..MaxRequests |-> IdleRequest]
  /\ nUnmatched = 0
  /\ searchValue = ""
  /\ isTodayGame = IsTodayGame
  /\ lastUpsert = NoUpsert
  /\ \E g \in SheetSet, t \in TargetSheets :
       sheets = [id \in CharacterIds |->
                   CASE id = "c1" -> g
                     [] id = "c2" -> t
                     [] OTHER -> DefaultSheets[id]]
  /\ guessCards = <<>>
  /\ otherTab = NoTab
  /\ profile = NewProfile
  /\ signals = NoSignals
  /\ retry = NoRetry

pageVars == <<today, authState, charsCacheValid, gameCache, catalog, dailyRows,
              attemptRows, gameDate, lives, guesses, gameOver, won, found,
              characterOfDay, allCharacters, loading, loadError,
              attemptHydrated, fetchInFlightRef, fetchSequenceRef, run, hs,
              nSubmitted, reqs, nUnmatched, searchValue, isTodayGame,
              lastUpsert>>

\* lines 795-940: the render draws one card per guess, the last guess first
RenderGuessCards ==
  /\ guessCards' = GuessCards(guesses, allCharacters, characterOfDay, sheets)
  /\ guessCards' # guessCards
  /\ UNCHANGED <<pageVars, sheets, otherTab, profile, signals, retry>>

\* the catalog gives the items of a character's lists in another order, and
\* the page draws the cards again
CharactersReordered(c) ==
  /\ sheets' = [sheets EXCEPT ![c] = Reordered(@)]
  /\ sheets' # sheets
  /\ guessCards' = GuessCards(guesses, allCharacters, characterOfDay, sheets')
  /\ UNCHANGED <<pageVars, otherTab, profile, signals, retry>>

NextCard ==
  \/ RenderGuessCards
  \/ \E c \in {"c1", "c2"} : CharactersReordered(c)

SpecCard == InitCard /\ [][NextCard]_vars

----------------------------------------------------------------------------
(* withRetry(() => withTimeout(read, timeoutMs), attempts): one call, with a
   read that resolves, rejects or never answers *)

\* a loop that runs once more than attempts
LoopContinuesM(index, attempts) == index <= attempts

\* line 57: for (let index = 0; index < attempts; index += 1)
LoopContinues(index, attempts) == index < attempts

\* line 62: if (index < attempts - 1)
SleepsBeforeNext(index, attempts) == index < attempts - 1

Pow2(n) == IF n = 0 THEN 1 ELSE IF n = 1 THEN 2 ELSE IF n = 2 THEN 4 ELSE 8

\* line 63: sleep(400 * 2 ** index)
Backoff(index) == BaseDelay * Pow2(index)

\* the page is not mounted
NoPage ==
  /\ today = 1
  /\ authState = "anon"
  /\ charsCacheValid = FALSE
  /\ gameDate = 1
  /\ gameCache = [d \in Days |-> NoEntry]
  /\ catalog = <<"c1", "c2", "c3">>
  /\ dailyRows = [d \in Days |-> IF d <= 1 THEN <<"c2">> ELSE <<>>]
  /\ attemptRows = [d \in Days |-> NoAttempt]
  /\ lives = MAX_LIVES
  /\ guesses = <<>>
  /\ gameOver = FALSE
  /\ won = FALSE
  /\ found = FALSE
  /\ characterOfDay = None
  /\ allCharacters = <<>>
  /\ loading = TRUE
  /\ loadError = ""
  /\ attemptHydrated = FALSE
  /\ fetchInFlightRef = FALSE
  /\ fetchSequenceRef = 0
  /\ run = IdleRun
  /\ hs = [h \in 1..MaxHandlers |-> IdleHandler]
  /\ nSubmitted = 0
  /\ reqs = [r \in 1..MaxRequests |-> IdleRequest]
  /\ nUnmatched = 0
  /\ searchValue = ""
  /\ isTodayGame = IsTodayGame
  /\ lastUpsert = NoUpsert
  /\ sheets = DefaultSheets
  /\ guessCards = <<>>
  /\ otherTab = NoTab
  /\ profile = NewProfile
  /\ signals = NoSignals

InitRetry ==
  /\ NoPage
  /\ \E n \in 0..MaxAttempts :
       retry = [pc |-> "loop", attempts |-> n, index |-> 0, calls |-> 0,
                waited |-> 0, slept |-> <<>>, failures |-> <<>>]

otherVars == <<pageVars, sheets, guessCards, otherTab, profile, signals>>

\* lines 57-59: the loop test, and run() is invoked; lines 68-72: the throw
\* after the loop
RetryLoop ==
  /\ retry.pc = "loop"
  /\ retry' = IF LoopContinues(retry.index, retry.attempts)
              THEN [retry EXCEPT !.pc = "pending", !.calls = @ + 1,
                                 !.waited = 0]
              ELSE [retry EXCEPT !.pc = "thrown"]
  /\ UNCHANGED otherVars

\* line 59: return await run()
RunResolves ==
  /\ retry.pc = "pending"
  /\ retry' = [retry EXCEPT !.pc = "returned"]
  /\ UNCHANGED otherVars

\* lines 60-65: catch (error), with the sleep before a next attempt
Caught(error) ==
  retry' = IF SleepsBeforeNext(retry.index, retry.attempts)
           THEN [retry EXCEPT !.pc = "sleep",
                              !.failures = Append(@, error),
                              !.slept = Append(@, Backoff(retry.index))]
           ELSE [retry EXCEPT !.pc = "loop", !.index = @ + 1,
                              !.failures = Append(@, error)]

\* the read rejects within the window
RunRejects ==
  /\ retry.pc = "pending"
  /\ Caught("rejected")
  /\ UNCHANGED otherVars

\* the read has not answered yet
TimePasses ==
  /\ retry.pc = "pending"
  /\ retry.waited < TimeoutTicks
  /\ retry' = [retry EXCEPT !.waited = @ + 1]
  /\ UNCHANGED otherVars

\* lines 31-35: the timer of withTimeout rejects the race
TimeoutFires ==
  /\ retry.pc = "pending"
  /\ retry.waited = TimeoutTicks
  /\ Caught("timed out")
  /\ UNCHANGED otherVars

\* line 63: the sleep ends, index += 1
SleepEnds ==
  /\ retry.pc = "sleep"
  /\ retry' = [retry EXCEPT !.pc = "loop", !.index = @ + 1]
  /\ UNCHANGED otherVars

NextRetry ==
  \/ RetryLoop
  \/ RunResolves
  \/ RunRejects
  \/ TimePasses
  \/ TimeoutFires
  \/ SleepEnds

\* timers fire: a pending step of the call is eventually taken
SpecRetry == InitRetry /\ [][NextRetry]_vars /\ WF_vars(NextRetry)

----------------------------------------------------------------------------
(* incrementGamesPlayedDirect and incrementWinsDirect, step by step: the
   select of the profile row and the update are two requests *)

statVars == <<today, authState, charsCacheValid, catalog, dailyRows, reqs,
              gameDate, fetchInFlightRef, fetchSequenceRef, run, nSubmitted,
              nUnmatched, sheets, otherTab, retry, characterOfDay,
              allCharacters, loading, loadError, attemptHydrated>>

InitStats ==
  /\ today = 1
  /\ authState = "user"
  /\ charsCacheValid = TRUE
  /\ gameDate = 1
  /\ catalog = <<"c1", "c2", "c3">>
  /\ dailyRows = [d \in Days |-> IF d <= 1 THEN <<"c2">> ELSE <<>>]
  /\ characterOfDay = "c2"
  /\ allCharacters = catalog
  /\ \E p \in LoadedProgress :
       /\ guesses = p.guesses
       /\ lives = p.lives
  /\ gameOver = FALSE
  /\ won = FALSE
  /\ found = FALSE
  /\ attemptHydrated = TRUE
  /\ gameCache = [d \in Days |-> IF d = gameDate THEN CachePayload ELSE NoEntry]
  /\ attemptRows = [d \in Days |-> IF d = gameDate /\ SaveGuard
                                   THEN AttemptPayload ELSE NoAttempt]
  /\ loading = FALSE
  /\ loadError = ""
  /\ fetchInFlightRef = FALSE
  /\ fetchSequenceRef = 1
  /\ run = [pc |-> "done", sequence |-> 1, optimisticHydrated |-> FALSE,
            currentUserId |-> SessionUserId, date |-> gameDate,
            savedAttempt |-> IF SaveGuard THEN "row" ELSE "null"]
  /\ hs = [h \in 1..MaxHandlers |-> IdleHandler]
  /\ nSubmitted = 0
  /\ reqs = [r \in 1..MaxRequests |-> IdleRequest]
  /\ nUnmatched = 0
  /\ searchValue = ""
  /\ isTodayGame = IsTodayGame
  /\ lastUpsert = NoUpsert
  /\ sheets = DefaultSheets
  /\ guessCards = <<>>
  /\ otherTab = NoTab
  /\ profile = NewProfile
  /\ signals = NoSignals
  /\ retry = NoRetry

\* profile.ts 30-36: the select of games_played answered; without a row the
\* function returns, and handleGuess goes on to setGuesses (line 585)
GamesPlayedSelect(h) ==
  /\ hs[h].pc = "games_played"
  /\ UNCHANGED statVars
  /\ \E row \in BOOLEAN :
       IF row
       THEN /\ hs' = [hs EXCEPT ![h].pc = "games_played_update",
                                ![h].read = profile.games_played]
            /\ UNCHANGED <<gameCache, attemptRows, lives, guesses, gameOver,
                           won, found, searchValue, isTodayGame, lastUpsert,
                           guessCards, profile, signals>>
       ELSE /\ hs' = [hs EXCEPT ![h].pc = "validate"]
            /\ guesses' = hs[h].newGuesses
            /\ signals' = [signals EXCEPT !.games_played = @ + 1,
                                          !.returned = @ + 1]
            /\ UNCHANGED <<lives, gameOver, won, found, searchValue, profile>>
            /\ Effects(gameCache)

\* profile.ts 39-47, part_003 577-585: the update answered; an error is thrown
\* and caught by handleGuess; setGuesses
GamesPlayedUpdate(h) ==
  /\ hs[h].pc = "games_played_update"
  /\ \E ok \in BOOLEAN :
       IF ok
       THEN /\ profile' = [profile EXCEPT !.games_played = hs[h].read + 1]
            /\ signals' = [signals EXCEPT !.games_played = @ + 1]
       ELSE UNCHANGED <<profile, signals>>
  /\ hs' = [hs EXCEPT ![h].pc = "validate"]
  /\ guesses' = hs[h].newGuesses
  /\ UNCHANGED <<lives, gameOver, won, found, searchValue>>
  /\ UNCHANGED statVars
  /\ Effects(gameCache)

\* profile.ts 52-58: the select of wins answered
WinsSelect(h) ==
  /\ hs[h].pc = "wins"
  /\ \E row \in BOOLEAN :
       IF row
       THEN /\ hs' = [hs EXCEPT ![h].pc = "wins_update",
                                ![h].read = profile.wins]
            /\ UNCHANGED <<searchValue, signals>>
       ELSE /\ hs' = [hs EXCEPT ![h] = IdleHandler]
            /\ searchValue' = ""
            /\ signals' = [signals EXCEPT !.wins = @ + 1, !.returned = @ + 1]
  /\ UNCHANGED <<lives, guesses, gameOver, won, found, profile>>
  /\ UNCHANGED statVars
  /\ Effects(gameCache)

\* profile.ts 61-69, part_003 605-612, 627: the update answered
WinsUpdate(h) ==
  /\ hs[h].pc = "wins_update"
  /\ \E ok \in BOOLEAN :
       IF ok
       THEN /\ profile' = [profile EXCEPT !.wins = hs[h].read + 1]
            /\ signals' = [signals EXCEPT !.wins = @ + 1]
       ELSE UNCHANGED <<profile, signals>>
  /\ hs' = [hs EXCEPT ![h] = IdleHandler]
  /\ searchValue' = ""
  /\ UNCHANGED <<lives, guesses, gameOver, won, found>>
  /\ UNCHANGED statVars
  /\ Effects(gameCache)

NextStats ==
  \/ \E h \in 1..MaxHandlers : SubmitGuess(h)
  \/ \E h \in 1..MaxHandlers : GamesPlayedSelect(h)
  \/ \E h \in 1..MaxHandlers : GamesPlayedUpdate(h)
  \/ \E h \in 1..MaxHandlers : ValidateReturn(h)
  \/ \E h \in 1..MaxHandlers : WinsSelect(h)
  \/ \E h \in 1..MaxHandlers : WinsUpdate(h)
  \/ \E h \in 1..MaxHandlers : RevealReturn(h)

SpecStats == InitStats /\ [][NextStats]_vars

----------------------------------------------------------------------------
(* The loads of a page, each read answering in the end: withTimeout rejects
   a read that does not answer and withRetry gives up after its attempts *)

NextLoad ==
  \/ StartLoad
  \/ CharactersReturn
  \/ DailyReturn
  \/ AttemptReturn
  \/ AuthResolve

SpecLoad ==
  /\ Init
  /\ [][NextLoad]_vars
  /\ WF_vars(CharactersReturn)
  /\ WF_vars(DailyReturn)
  /\ WF_vars(AttemptReturn)

\* The route alone: no page is open, no row is stored yet
InitDaily ==
  /\ today = 1
  /\ authState = "anon"
  /\ charsCacheValid = FALSE
  /\ gameDate = 1
  /\ gameCache = [d \in Days |-> NoEntry]
  /\ catalog \in {Ascending(S) : S \in SUBSET CharacterIds}
  /\ dailyRows = [d \in Days |-> <<>>]
  /\ attemptRows = [d \in Days |-> NoAttempt]
  /\ lives = MAX_LIVES
  /\ guesses = <<>>
  /\ gameOver = FALSE
  /\ won = FALSE
  /\ found = FALSE
  /\ characterOfDay = None
  /\ allCharacters = <<>>
  /\ loading = TRUE
  /\ loadError = ""
  /\ attemptHydrated = FALSE
  /\ fetchInFlightRef = FALSE
  /\ fetchSequenceRef = 0
  /\ run = IdleRun
  /\ hs = [h \in 1..MaxHandlers |-> IdleHandler]
  /\ nSubmitted = 0
  /\ reqs = [r \in 1..MaxRequests |-> IdleRequest]
  /\ nUnmatched = 0
  /\ searchValue = ""
  /\ isTodayGame = IsTodayGame
  /\ lastUpsert = NoUpsert
  /\ sheets = DefaultSheets
  /\ guessCards = <<>>
  /\ otherTab = NoTab
  /\ profile = NewProfile
  /\ signals = NoSignals
  /\ retry = NoRetry

NextDaily ==
  \/ \E r \in 1..MaxRequests : GetStart(r)
  \/ \E r \in 1..MaxRequests : GetQuery(r)
  \/ \E r \in 1..MaxRequests : GetCharacters(r)
  \/ \E r \in 1..MaxRequests : GetInsert(r)
  \/ \E r \in 1..MaxRequests : GetCharacter(r)
  \/ AdminChange
  \/ Tick

SpecDaily == InitDaily /\ [][NextDaily]_vars

----------------------------------------------------------------------------
(* Claims about the session *)

\* a step of some handleGuess call
GuessStep == hs' # hs

\* a step in which some handleGuess call scores its guess
ScoringStep ==
  \E h \in 1..MaxHandlers :
    hs[h].pc = "validate" /\ hs'[h].pc \notin {"validate", "validate_hung"}

\* C1: once found is true or lives is 0, no step of a guess handler, started
\* before or after, changes guesses, lives, found or won.
C1_TerminalLock ==
  [][((found \/ lives = 0) /\ GuessStep)
       => UNCHANGED <<guesses, lives, found, won>>]_vars

\* C2: lives stay within 0..MAX_LIVES, and every step that scores a guess as
\* incorrect while the game is open (found false, lives above 0) lowers lives
\* by exactly 1.
C2_MonotonicLives ==
  /\ [](lives >= 0 /\ lives <= MAX_LIVES)
  /\ [][(ScoringStep /\ ~found /\ ~found' /\ lives > 0)
         => lives' = lives - 1]_vars

\* C3: a guess handler turns won to true only when gameDate is the real-world
\* date at that moment, and a correct guess on a past date leaves won false.
C3_WonImpliesToday ==
  [][(GuessStep /\ ~found /\ found')
       => /\ won' => gameDate = today
          /\ gameDate < today => ~won']_vars

\* C4: won implies found in the session state, and in every cache entry and
\* attempt row the session writes.
C4_WonImpliesFound ==
  /\ [](won => found)
  /\ [][\A d \in Days :
          /\ (gameCache'[d] # gameCache[d] /\ gameCache'[d] # NoEntry)
               => (gameCache'[d].won => gameCache'[d].found)
          /\ (attemptRows'[d] # attemptRows[d])
               => (attemptRows'[d].won => attemptRows'[d].found)]_vars

\* C4 witness: the session was hydrated from a remote row that has won set and
\* found unset, and shows it as won and found.
C4_Witness ==
  /\ run.pc = "done"
  /\ run.savedAttempt = "row"
  /\ attemptRows[gameDate] # NoAttempt
  /\ attemptRows[gameDate].won
  /\ ~attemptRows[gameDate].found
  /\ won
  /\ found

\* C5: for one date, found never goes back to false, neither in the session
\* state nor in the stored attempt row.
C5_FoundMonotonic ==
  [][/\ found => found'
     /\ (attemptRows[gameDate] # NoAttempt /\ attemptRows[gameDate].found)
          => (attemptRows'[gameDate] # NoAttempt /\ attemptRows'[gameDate].found)]_vars

\* C6: gameOver is true exactly when found is true or lives is 0.
C6_GameOverIff == gameOver <=> (found \/ lives = 0)

\* guesses, lives, found and won as the code takes them from an attempt row
FromAttempt(row) ==
  <<row.guesses, ClampLives(row.lives_remaining), row.found \/ row.won, row.won>>

\* C9: when a load ends without a failed read while the user is signed in and
\* a remote attempt is stored for the date, the session shows the remote
\* record's guesses, lives, found and won.
C9_RemoteAuthoritative ==
  [][(/\ run.pc \notin {"done", "failed"}
      /\ run'.pc = "done"
      /\ run'.savedAttempt # "error"
      /\ SessionUserId' # None
      /\ attemptRows[gameDate] # NoAttempt)
       => <<guesses', lives', found', won'>> = FromAttempt(attemptRows[gameDate])]_vars

\* the session shows no progress
FreshState == guesses = <<>> /\ lives = MAX_LIVES /\ ~found /\ ~won

\* the session shows the progress of a stored entry written for its target
ShowsEntryOfTarget ==
  \E e \in StoredEntries(gameDate) \ {NoEntry} :
    /\ e.characterId = characterOfDay
    /\ <<guesses, lives, found, won>> =
         <<e.guesses, ClampLives(e.lives), FoundOr(e), e.won>>

\* C10: when a load ends with a target and without using a remote attempt
\* (and no guess was made meanwhile), the session shows either the progress
\* of a cache entry stored for that target or no progress at all.
C10_LocalCacheGuard ==
  [][(/\ run.pc \notin {"done", "failed"}
      /\ run'.pc = "done"
      /\ run'.savedAttempt # "row"
      /\ nSubmitted' = 0)
       => (FreshState' \/ ShowsEntryOfTarget')]_vars

\* handler h is the only handleGuess call in flight
OnlyInFlight(h) == \A k \in 1..MaxHandlers : k # h => hs[k].pc = "idle"

\* C11: when a load that rendered optimistically from the cache has been
\* reconciled with the remote attempt row, a guess scored afterwards (with no
\* other guess in flight) writes lives from the reconciled value: they stay,
\* or drop by one from what the session shows.
C11_NoStaleGuess ==
  [][\A h \in 1..MaxHandlers :
       ( /\ hs[h].pc = "validate"
         /\ hs'[h].pc \notin {"validate", "validate_hung"}
         /\ OnlyInFlight(h)
         /\ run.pc = "done"
         /\ run.optimisticHydrated
         /\ run.savedAttempt = "row" )
       => (lives' = lives \/ lives' = lives - 1)]_vars

\* the date has no playable target: no daily row, or the row's character is
\* not in the catalog (which may be empty)
NotFound(d) ==
  \/ MaybeSingle(dailyRows[d]) = None
  \/ FindById(catalog, MaybeSingle(dailyRows[d])) = None

\* C12: when the daily fetch of a load returns and the date has no playable
\* target, the load fails, loadError is set and no target can be played.
C12_NotFoundUnavailable ==
  [][(run.pc = "daily" /\ run'.pc # "daily" /\ NotFound(run.date))
       => (run'.pc = "failed" /\ loadError' # "" /\ ~SearchBarShown')]_vars

\* what an upsert stores and what makes the session save again
Persisted == <<guesses, lives, found, won, attemptHydrated, SessionUserId>>

\* C18: once the attempt is hydrated, the player signed in and a guess held,
\* every step that changes guesses, lives, found or won (or that completes the
\* hydration or the sign-in) sends an upsert of the new guesses, lives, found
\* and won for gameDate; a stored upsert makes the row equal to them, a failed
\* one leaves the rows alone; after a failed upsert no error is shown and the
\* search bar is there whenever the game is not over.
C18_AttemptPersistence ==
  /\ [][( /\ Persisted' # Persisted
          /\ SessionUserId' # None
          /\ attemptHydrated'
          /\ Len(guesses') > 0 )
        => /\ lastUpsert' # NoUpsert
           /\ lastUpsert'.game_date = gameDate'
           /\ lastUpsert'.row = AttemptPayload'
           /\ lastUpsert'.ok => attemptRows'[gameDate'] = AttemptPayload'
           /\ ~lastUpsert'.ok => attemptRows' = attemptRows]_vars
  /\ []((lastUpsert # NoUpsert /\ ~lastUpsert.ok /\ attemptHydrated)
          => /\ loadError = ""
             /\ ~gameOver => SearchBarShown)

\* C18 witness: the last upsert failed; the session keeps the guesses the row
\* does not have, and the player can go on guessing.
C18_Witness ==
  /\ lastUpsert # NoUpsert
  /\ ~lastUpsert.ok
  /\ lastUpsert.row = AttemptPayload
  /\ attemptRows[gameDate] # AttemptPayload
  /\ Len(guesses) > 0
  /\ SearchBarShown

\* C23: once a target is known, every step that changes guesses, lives,
\* found or won leaves, under the key of the page's date, the entry
\* {dateKey, characterId, guesses, lives, won, found} of the new state.
C23_MirrorToCache ==
  [][(<<guesses', lives', found', won'>> # <<guesses, lives, found, won>>
      /\ characterOfDay' # None)
       => /\ gameCache'[gameDate'] # NoEntry
          /\ gameCache'[gameDate'].dateKey = gameDate'
          /\ gameCache'[gameDate'].characterId = characterOfDay'
          /\ gameCache'[gameDate'].guesses = guesses'
          /\ gameCache'[gameDate'].lives = lives'
          /\ gameCache'[gameDate'].won = won'
          /\ gameCache'[gameDate'].found = found']_vars

\* a lost game, mirrored: two guesses made on the page, no life left
C23_Witness ==
  /\ nSubmitted = 2
  /\ lives = 0
  /\ gameOver
  /\ \A h \in 1..MaxHandlers : hs[h].pc = "idle"
  /\ gameCache[gameDate] # NoEntry
  /\ gameCache[gameDate].lives = 0
  /\ gameCache[gameDate].guesses = guesses

\* the load in progress or ended last has read the remote attempt of the
\* page's date: a row, or the confirmation that there is none
RemoteAttemptRead ==
  /\ run.date = gameDate
  /\ run.savedAttempt \in {"row", "null"}

\* C27: an upsert is sent only by a page whose current load has read the
\* remote attempt successfully, and a stored attempt is replaced only then.
C27_UpsertAfterRemoteRead ==
  [][/\ lastUpsert' # lastUpsert => RemoteAttemptRead'
     /\ \A d \in Days :
          attemptRows[d] # NoAttempt /\ attemptRows'[d] # attemptRows[d]
            => RemoteAttemptRead']_vars

----------------------------------------------------------------------------
(* Claims about the guesses of a loaded page *)

\* handler h scores its guess in this step
Scores(h) ==
  hs[h].pc = "validate" /\ hs'[h].pc \notin {"validate", "validate_hung"}

\* handler h accepts a guess in this step
Accepts(h) == hs[h].pc = "idle" /\ hs'[h].pc # "idle"

\* the names of a and b are equal, case-insensitively
SameName(a, b) == ToLowerCase(NameOf(a)) = ToLowerCase(NameOf(b))

\* C13: every accepted guess is scored, also when the remote check never
\* responds; the scoring surfaces no error; a guess is scored correct only if
\* the remote check or the local name comparison says so, and incorrect only
\* if one of them says so.
C13_ValidationFallback ==
  /\ [](\A h \in 1..MaxHandlers : hs[h].pc # "validate_hung")
  /\ [][\A h \in 1..MaxHandlers :
          Scores(h) =>
            /\ loadError' = loadError
            /\ (~found /\ found')
                 => \/ hs[h].id = ServerTarget(hs[h].date)
                    \/ SameName(hs[h].id, hs[h].characterOfDay)
            /\ ~found'
                 => \/ hs[h].id # ServerTarget(hs[h].date)
                    \/ ~SameName(hs[h].id, hs[h].characterOfDay)]_vars

\* C14: the step that scores a guess as correct sets found and gameOver and
\* leaves lives; won becomes true, and a wins increment is signalled for a
\* signed-in player, exactly when gameDate is the real-world date.
C14_CorrectGuess ==
  [][\A h \in 1..MaxHandlers :
       (Scores(h) /\ ~found /\ found')
         => /\ gameOver'
            /\ lives' = lives
            /\ won' <=> (gameDate = today)
            /\ (hs'[h].pc = "wins")
                 <=> (gameDate = today /\ SessionUserId # None)]_vars

\* C15: the step that scores a guess as incorrect and brings lives to 0
\* marks the game over and invokes the reveal; the reveal is invoked once per
\* defeat; when it returns or fails the game is still lost, and the target
\* shown is the revealed one or, after a failure, the one held before.
C15_LossAndReveal ==
  /\ [][\A h \in 1..MaxHandlers :
          (Scores(h) /\ ~found' /\ lives > 0 /\ lives' = 0)
            => (gameOver' /\ hs'[h].pc = "reveal")]_vars
  /\ [][\A h \in 1..MaxHandlers :
          (hs[h].pc # "reveal" /\ hs'[h].pc = "reveal") => lives > 0]_vars
  /\ [][\A h \in 1..MaxHandlers :
          (hs[h].pc = "reveal" /\ hs'[h].pc # "reveal")
            => /\ UNCHANGED <<lives, gameOver, found, won, guesses>>
               /\ characterOfDay' \in {characterOfDay, ServerTarget(gameDate)}]_vars

\* the token is the name of a character of the list, case-insensitively
IsNameIn(chars, token) ==
  \E i \in 1..Len(chars) : ToLowerCase(NameOf(chars[i])) = ToLowerCase(token)

\* C16: a token that names no character of the catalog is never accepted as
\* a guess, and its submission clears the search input and changes neither
\* guesses, lives, found, won, gameOver, the calls in flight, the stored
\* attempt nor the local cache.
C16_UnmatchedToken ==
  /\ [][\A h \in 1..MaxHandlers :
          Accepts(h) => IsNameIn(allCharacters, hs'[h].guess)]_vars
  /\ [][(nUnmatched' # nUnmatched)
          => /\ searchValue' = ""
             /\ UNCHANGED <<guesses, lives, found, won, gameOver, hs,
                            attemptRows, gameCache, nSubmitted>>]_vars

\* C16 witness: an unmatched token was submitted, and the page shows the
\* untouched start of the game with an empty input and no call in flight.
C16_Witness ==
  /\ nUnmatched > 0
  /\ nSubmitted = 0
  /\ searchValue = ""
  /\ guesses = <<>>
  /\ lives = MAX_LIVES
  /\ ~gameOver
  /\ \A h \in 1..MaxHandlers : hs[h].pc = "idle"

\* C17: a guess is accepted with a games-played increment exactly when it is
\* the first guess, gameDate is the real-world date and the player is signed
\* in; and the guess is appended and scored also when the increment call
\* never responds.
C17_GamesPlayedSignal ==
  /\ [][\A h \in 1..MaxHandlers :
          Accepts(h)
            => ((hs'[h].pc = "games_played")
                  <=> (Len(guesses) = 0 /\ gameDate = today
                       /\ SessionUserId # None))]_vars
  /\ [](\A h \in 1..MaxHandlers : hs[h].pc # "games_played_hung")

\* every guess of the record has had its effect: a life taken, or found set
EffectsApplied(gs, lv, fnd) ==
  Len(gs) <= (MAX_LIVES - lv) + (IF fnd THEN 1 ELSE 0)

\* C20: no local cache entry, no stored attempt and no upsert sent contains a
\* guess whose effect on lives or found is missing: each records at most as
\* many guesses as lives taken, plus one if the character was found.
C20_AtomicTransitions ==
  /\ \A d \in Days :
       /\ gameCache[d] # NoEntry
            => EffectsApplied(gameCache[d].guesses, gameCache[d].lives,
                              gameCache[d].found)
       /\ attemptRows[d] # NoAttempt
            => EffectsApplied(attemptRows[d].guesses,
                              attemptRows[d].lives_remaining,
                              attemptRows[d].found)
  /\ lastUpsert # NoUpsert
       => EffectsApplied(lastUpsert.row.guesses, lastUpsert.row.lives_remaining,
                         lastUpsert.row.found)

----------------------------------------------------------------------------
(* Claims about a page whose date changes *)

sessionState == <<characterOfDay, guesses, lives, won, found, gameOver>>

RunInFlight == run.pc \in {"chars", "daily", "attempt"}

\* C21: a step of a load that was started for another date than the page's
\* leaves the session state as it is, and a page with no load in flight has
\* completed or failed a load for its own date: a completed one shows the
\* target of that date.
C21_SupersedingLoads ==
  /\ [][(RunInFlight /\ run.date # gameDate /\ gameDate' = gameDate)
          => sessionState' = sessionState]_vars
  /\ [](~RunInFlight /\ run.pc # "idle" => run.date = gameDate)
  /\ [](run.pc = "done" => characterOfDay = TargetOf(gameDate))

\* the guesses of a record were all made on date d
PlayedOn(d, gs) == \A i \in 1..Len(gs) : gs[i] = WrongOf(d)

\* C28: every cache entry under the key of a date holds that date's target
\* and guesses made on that date, and every attempt stored or sent under a
\* date holds guesses made on that date.
C28_NoCrossDate ==
  /\ \A d \in SelectableDates :
       /\ gameCache[d] # NoEntry
            => /\ gameCache[d].characterId = TargetOf(d)
               /\ PlayedOn(d, gameCache[d].guesses)
       /\ attemptRows[d] # NoAttempt => PlayedOn(d, attemptRows[d].guesses)
  /\ lastUpsert # NoUpsert
       => PlayedOn(lastUpsert.game_date, lastUpsert.row.guesses)

----------------------------------------------------------------------------
(* Claims about two pages of the same user *)

IsPrefix(a, b) == Len(a) <= Len(b) /\ \A i \in 1..Len(a) : a[i] = b[i]

\* the first page is at rest: loaded with the remote record read (a row or
\* none), nothing in flight
AtRest ==
  /\ run.pc = "done"
  /\ run.savedAttempt \in {"row", "null"}
  /\ attemptHydrated
  /\ \A h \in 1..MaxHandlers : hs[h].pc = "idle"

\* C22: when the first page is at rest and a remote record exists, the page
\* and the record differ at most in how many guesses of one history they
\* hold (the guesses of one are the first guesses of the other); a remote
\* record that says found keeps saying so; and a load that reads the remote
\* record leaves the page equal to it.
C22_LastWriteWins ==
  /\ [][(attemptRows[gameDate] # NoAttempt /\ attemptRows[gameDate].found)
          => attemptRows'[gameDate].found]_vars
  /\ [](AtRest /\ attemptRows[gameDate] # NoAttempt
          => \/ IsPrefix(guesses, attemptRows[gameDate].guesses)
             \/ IsPrefix(attemptRows[gameDate].guesses, guesses))
  /\ [][(run.pc = "attempt" /\ run'.pc = "done" /\ run'.savedAttempt = "row")
          => <<guesses', lives', found', won'>>
               = FromAttempt(attemptRows[gameDate])]_vars

----------------------------------------------------------------------------
(* Claims about the card list *)

Ids(list) == {list[i] : i \in 1..Len(list)}

HasState(sheet) == sheet.state.kind = "object"
HasAge(sheet) == sheet.age.kind = "number"

\* both have a state and it is the same one, or neither has a state
SameState(g, t) ==
  IF HasState(g) /\ HasState(t) THEN g.state.id = t.state.id
  ELSE ~HasState(g) /\ ~HasState(t)

\* both have an age and it is the same number, or neither has an age
SameAge(g, t) ==
  IF HasAge(g) /\ HasAge(t) THEN g.age.value = t.age.value
  ELSE ~HasAge(g) /\ ~HasAge(t)

IsCard(card) == card.kind = "card"

CardFeedbackOk(card) ==
  LET g == sheets[card.id]
      t == sheets[characterOfDay]
  IN /\ \A a \in Attributes :
          IF Len(g[a]) = 0
          THEN \A j \in DOMAIN card.chips[a] : ~card.chips[a][j].match
          ELSE /\ Len(card.chips[a]) = Len(g[a])
               /\ \A j \in 1..Len(g[a]) :
                    /\ card.chips[a][j].key = g[a][j]
                    /\ card.chips[a][j].match <=> g[a][j] \in Ids(t[a])
     /\ card.comparisons.state <=> SameState(g, t)
     /\ card.comparisons.age <=> SameAge(g, t)

MatchedIds(card, a) ==
  {card.chips[a][j].key : j \in {k \in DOMAIN card.chips[a] : card.chips[a][k].match}}

\* C19: on every card, each item of the guessed character's classes, races,
\* occupations, associations and places is flagged a match exactly when its
\* id is among the ids of the target's list of the same attribute; state and
\* age are flagged by equality (no state on both sides and no age on both
\* sides, null or absent, count as equal); two cards of the same character
\* are equal wherever they stand in the list; and when the items of a list
\* come in another order, the same ids are flagged and the state and age
\* flags stay as they were.
C19_FeedbackComputation ==
  /\ [](\A i \in DOMAIN guessCards :
          IsCard(guessCards[i]) => CardFeedbackOk(guessCards[i]))
  /\ [](\A i, j \in DOMAIN guessCards :
          (/\ IsCard(guessCards[i]) /\ IsCard(guessCards[j])
           /\ guessCards[i].id = guessCards[j].id)
          => guessCards[i] = guessCards[j])
  /\ [][(sheets' # sheets /\ Len(guessCards') = Len(guessCards))
        => \A i \in DOMAIN guessCards :
             /\ IsCard(guessCards'[i]) <=> IsCard(guessCards[i])
             /\ IsCard(guessCards[i]) =>
                  /\ guessCards'[i].comparisons = guessCards[i].comparisons
                  /\ \A a \in Attributes :
                       MatchedIds(guessCards'[i], a) = MatchedIds(guessCards[i], a)]_vars

\* the same character guessed twice, its two classes both among the target's
\* classes, which come in the other order, and an absent age against a null one
C19_Witness ==
  /\ Len(guessCards) = 2
  /\ \A i \in 1..2 : IsCard(guessCards[i]) /\ guessCards[i].id = "c1"
  /\ sheets["c1"].classes = <<"k1", "k2">>
  /\ sheets["c2"].classes = <<"k2", "k1">>
  /\ \A j \in 1..2 : guessCards[1].chips["classes"][j].match
  /\ sheets["c1"].age = Undefined
  /\ sheets["c2"].age = Null
  /\ guessCards[1].comparisons.age
  /\ sheets["c1"].places = <<"p1", "p2">>
  /\ ~guessCards[1].chips["places"][1].match
  /\ guessCards[1].chips["places"][2].match

----------------------------------------------------------------------------
(* Claims about withRetry and withTimeout *)

RetryEnded == retry.pc \in {"returned", "thrown"}

ExpectedDelay(i) == IF i = 1 THEN 400 ELSE IF i = 2 THEN 800 ELSE 1600

\* C25: run is invoked at most attempts times; the wait before attempt i+1
\* is base * 2^i, so an attempt in progress was preceded by one wait per
\* earlier attempt; a result is returned by the first attempt that did not
\* fail; the call throws only after attempts failures; no attempt stays
\* pending beyond its window; and the call ends, whatever the read does.
C25_BoundedRetry ==
  /\ [](/\ retry.calls <= retry.attempts
        /\ \A i \in 1..Len(retry.slept) : retry.slept[i] = ExpectedDelay(i)
        /\ retry.pc = "pending"
             => /\ retry.waited <= TimeoutTicks
                /\ Len(retry.slept) = retry.calls - 1
                /\ Len(retry.failures) = retry.calls - 1
        /\ retry.pc = "returned" => retry.calls = Len(retry.failures) + 1
        /\ retry.pc = "thrown"
             => /\ retry.calls = retry.attempts
                /\ Len(retry.failures) = retry.attempts)
  /\ <>RetryEnded

\* three attempts, the read never answered: three time-outs, two waits
C25_Witness ==
  /\ retry.pc = "thrown"
  /\ retry.attempts = 3
  /\ retry.failures = <<"timed out", "timed out", "timed out">>
  /\ retry.slept = <<400, 800>>

----------------------------------------------------------------------------
(* Claims about the counters of the profile *)

NoIncrementInFlight ==
  \A h \in 1..MaxHandlers :
    hs[h].pc \notin {"games_played", "games_played_update", "wins",
                     "wins_update"}

\* C26: once no increment is in flight, games_played has grown by the number
\* of incrementGamesPlayedDirect calls that completed without error, and wins
\* by the number of incrementWinsDirect calls that completed without error.
C26_IncrementsNotLost ==
  NoIncrementInFlight
    => /\ profile.games_played = signals.games_played
       /\ profile.wins = signals.wins

\* the incrementGamesPlayedDirect calls of the page that have not returned
GamesPlayedInFlight ==
  {h \in 1..MaxHandlers : hs[h].pc \in {"games_played", "games_played_update"}}

\* C29: for the user and the date of the page, the calls of
\* incrementGamesPlayedDirect that completed without error and the calls in
\* flight number at most one.
C29_GamesPlayedOnce ==
  signals.games_played + Cardinality(GamesPlayedInFlight) <= 1

----------------------------------------------------------------------------
(* Claims about the end of a load *)

RunEnded == run.pc \in {"done", "failed"}

\* the "Try again" button is rendered and fetchCharacterOfDay may run again
TryAgainShown ==
  /\ RunEnded
  /\ ~loading
  /\ loadError # ""
  /\ fetchSequenceRef < MaxLoads

\* C30: a run in flight leads to an ended run, and an ended run has
\* loading = false, attemptHydrated = true and no in-flight marker, whatever
\* its reads did; a call made after it starts a new run.
C30_LoadEnds ==
  /\ RunInFlight ~> RunEnded
  /\ [](RunEnded => ~loading /\ attemptHydrated /\ ~fetchInFlightRef)
  /\ [](RunInFlight => fetchInFlightRef)
  /\ [](TryAgainShown => ENABLED StartLoad)

\* a second run, started by "Try again" after a failed one, has ended
C30_Witness ==
  /\ RunEnded
  /\ run.sequence = 2
  /\ run.savedAttempt = "error"
  /\ ~loading
  /\ attemptHydrated
  /\ ~fetchInFlightRef

----------------------------------------------------------------------------
(* Claims about the daily-character route *)

\* C7: every request that returns a character returns the character of the
\* one row stored for its date, whatever the catalog has become.
C7_TargetDeterminism ==
  \A r \in 1..MaxRequests :
    reqs[r].pc = "ok"
      => /\ Len(dailyRows[reqs[r].today]) = 1
         /\ reqs[r].characterId = dailyRows[reqs[r].today][1]

\* C7 witness: a request returned the stored row's character although the
\* catalog has changed and the selection would now give another one.
C7_Witness ==
  \E r \in 1..MaxRequests :
    /\ reqs[r].pc = "ok"
    /\ ~reqs[r].created
    /\ Len(catalog) > 0
    /\ SelectCharacter(catalog, reqs[r].today) # reqs[r].characterId
    /\ reqs[r].characterId = dailyRows[reqs[r].today][1]

\* C8: at most one row is stored per date, no request fails at its insert,
\* and the requests that returned for one date returned the same character.
C8_OneRowPerDate ==
  /\ \A d \in Days : Len(dailyRows[d]) <= 1
  /\ \A r \in 1..MaxRequests : ~(reqs[r].pc = "failed" /\ reqs[r].error = "insert")
  /\ \A r1, r2 \in 1..MaxRequests :
       (reqs[r1].pc = "ok" /\ reqs[r2].pc = "ok" /\ reqs[r1].today = reqs[r2].today)
         => reqs[r1].characterId = reqs[r2].characterId

\* C24: the character a request selects for a date without a row is
\* catalog[dayOfYear(D) mod catalogSize], with D the date that keys the row
\* the request stores.
C24_SelectionFormula ==
  [][\A r \in 1..MaxRequests :
       (reqs[r].pc = "characters" /\ reqs'[r].pc = "insert")
         => reqs'[r].characterId
              = catalog[(DayOfYear(reqs[r].today) % Len(catalog)) + 1]]_vars

====
